---- MODULE Spec2Model ----
(***************************************************************************)
(* Model of package check (src/internal/check/check.go): the Validator     *)
(* core (Check, Await, AwaitFor, AwaitUntil), its error model and the      *)
(* predicate factories, run by a test that invokes validators one after    *)
(* another against a state source reached through ygnmi.Lookup and         *)
(* ygnmi.Watch.                                                            *)
(***************************************************************************)
EXTENDS Integers, Sequences, FiniteSets, TLC

\* ------------------------------------------------------------------ bounds
MaxVal == 2        \* leaf values are 1..MaxVal
MaxTime == 3       \* the clock runs 0..MaxTime
MaxTimeout == 2    \* AwaitFor timeouts are -1..MaxTimeout
MaxDeliver == 2    \* values one Watch stream delivers at most
MaxCalls == 2      \* validator invocations of one test run
MaxLen == 3        \* slices have at most MaxLen elements
MaxBootTime == 3   \* boot times are 1..MaxBootTime
maxWaitTime == 3   \* 30 minutes, in units of sleepDuration
gnmiWaitTime == 2  \* 5 minutes, in units of sleepDuration
MaxRoutes == 2     \* routeCount: the prefixes netutil.GenCIDRs generates
bgpNHCount == 2
isisNHCount == 1

\* now: the clock; sharedCtx: the context the test hands to its Await calls;
\* call: the validator call the test is running; other: a call a second
\* goroutine of the test runs at the same time; ncalls: calls begun so far;
\* priorTimeout: an earlier Await ended on the shared context's deadline.
VARIABLES now, sharedCtx, call, other, ncalls, priorTimeout

vars == <<now, sharedCtx, call, other, ncalls, priorTimeout>>

\* ------------------------------------------------------------------ values
\* *ygnmi.Value[T]: a nil pointer, or a wrapper that is present with a T or
\* absent.  Lookup and Watch hand out non-nil wrappers only.
NilValue == [isnil |-> TRUE, present |-> FALSE, val |-> 0]

Absent == [isnil |-> FALSE, present |-> FALSE, val |-> 0]

PresentVal(v) == [isnil |-> FALSE, present |-> TRUE, val |-> v]

Values == {Absent} \cup {PresentVal(v) : v \in 1..MaxVal}

\* fmt.Sprintf("%#v", val) of an integer leaf.
GoSyntax(v) == ToString(v)

\* Variant: an absent value is printed as the zero value it carries.
FormatValue_ZeroValue(v) ==
    IF v.isnil THEN "nil" ELSE GoSyntax(v.val)

FormatValue(v) ==
    IF v.isnil THEN "nil"
    ELSE IF ~v.present THEN "no value"
    ELSE GoSyntax(v.val)

\* ------------------------------------------------------------------ errors
\* A Go error value; text is the message as the sequence of its pieces.
Nil == [kind |-> "nil", code |-> "", text |-> <<>>]

Errorf(text) == [kind |-> "errorString", code |-> "", text |-> text]

\* An error carrying a gRPC status (has GRPCStatus()).
StatusError(code) == [kind |-> "grpcStatus", code |-> code, text |-> <<code>>]

\* ctx.Err(): context.Canceled or context.DeadlineExceeded, no gRPC status.
ContextError(code) == [kind |-> "context", code |-> code, text |-> <<code>>]

\* Variant: any error with a gRPC status counts as a timeout.
isTimeout_AnyStatus(err) ==
    IF err = Nil THEN FALSE ELSE err.kind = "grpcStatus"

\* errors.As(err, &stat) && stat.GRPCStatus().Code() == codes.DeadlineExceeded
isTimeout(err) ==
    IF err = Nil THEN FALSE
    ELSE IF err.kind = "grpcStatus" THEN err.code = "DeadlineExceeded"
    ELSE FALSE

\* &validationError[T]{validationErr: v, failureCause: f}; a nil error return
\* is NilReturn.
validationError(v, f) == [isNil |-> FALSE, validationErr |-> v, failureCause |-> f]

NilReturn == [isNil |-> TRUE, validationErr |-> Nil, failureCause |-> Nil]

\* ------------------------------------------------------------------ paths
\* A query's PathStruct: nil, or a path whose resolution (ygnmi.ResolvePath)
\* or rendering (ygot.PathToString) may fail with an error.
NilPath == [isnil |-> TRUE, resolveErr |-> Nil, toStringErr |-> Nil, str |-> ""]

GoodPath(str) ==
    [isnil |-> FALSE, resolveErr |-> Nil, toStringErr |-> Nil, str |-> str]

UnresolvablePath ==
    [isnil |-> FALSE, resolveErr |-> Errorf(<<"cannot resolve">>),
     toStringErr |-> Nil, str |-> ""]

UnrenderablePath ==
    [isnil |-> FALSE, resolveErr |-> Nil,
     toStringErr |-> Errorf(<<"cannot render">>), str |-> ""]

Paths == {NilPath, GoodPath("/some/path"), UnresolvablePath, UnrenderablePath}

\* The path of the query the validators of the test run are built on.
TestPath == GoodPath("/some/path")

\* FormatPath as the pieces of the string it returns.
FormatPath(path) ==
    IF path.isnil THEN <<"<nil path>">>
    ELSE IF path.resolveErr # Nil
         THEN <<"<Unprintable path: ">> \o path.resolveErr.text \o <<">">>
    ELSE IF path.toStringErr # Nil
         THEN <<"<Unprintable path: ">> \o path.toStringErr.text \o <<">">>
    ELSE <<path.str>>

\* Variant: the validation error is printed whenever there is one.
Error_ValidationFirst(path, e) ==
    IF e.validationErr # Nil
    THEN FormatPath(path) \o <<": ">> \o e.validationErr.text
    ELSE IF e.failureCause # Nil
         THEN FormatPath(path) \o <<": ">> \o e.failureCause.text
         ELSE FormatPath(path) \o <<": unknown error">>

\* validationError.Error() of the error e on a query with the given path, as
\* the pieces of the message.
Error(path, e) ==
    IF isTimeout(e.failureCause)
    THEN IF e.validationErr # Nil
         THEN FormatPath(path) \o <<": ">> \o e.validationErr.text
                  \o <<" (deadline exceeded)">>
         ELSE FormatPath(path)
                  \o <<": deadline exceeded before any values were fetched">>
    ELSE IF e.failureCause # Nil
         THEN FormatPath(path) \o <<": ">> \o e.failureCause.text
    ELSE IF e.validationErr # Nil
         THEN FormatPath(path) \o <<": ">> \o e.validationErr.text
    ELSE FormatPath(path) \o <<": unknown error">>

\* ------------------------------------------------------------------ validators
\* Predicate's validation function: the value must be present and satisfy
\* the predicate; wantMsg is given as the pieces of its text.
\* Variant: the test on the predicate is inverted.
Predicate_Inverted(vgot, wantMsg, holds) ==
    IF ~vgot.present \/ holds
    THEN Errorf(<<"got ", FormatValue(vgot), ", ">> \o wantMsg)
    ELSE Nil

\* Variant: an absent value is not checked at all.
Predicate_AbsentPasses(vgot, wantMsg, holds) ==
    IF vgot.present /\ ~holds
    THEN Errorf(<<"got ", FormatValue(vgot), ", ">> \o wantMsg)
    ELSE Nil

Predicate(vgot, wantMsg, holds) ==
    IF ~vgot.present \/ ~holds
    THEN Errorf(<<"got ", FormatValue(vgot), ", ">> \o wantMsg)
    ELSE Nil

Equal(want) == [kind |-> "Equal", want |-> want]

NotEqual(wantNot) == [kind |-> "NotEqual", want |-> wantNot]

EqualOrNil(want) == [kind |-> "EqualOrNil", want |-> want]

Present == [kind |-> "Present", want |-> 0]

NotPresent == [kind |-> "NotPresent", want |-> 0]

Validators ==
    {Equal(w) : w \in 1..MaxVal} \cup {NotEqual(w) : w \in 1..MaxVal}
        \cup {EqualOrNil(w) : w \in 1..MaxVal} \cup {Present, NotPresent}

\* vd.validationFn(vgot) for the validator each factory builds.
\* Variant: EqualOrNil built on Predicate, which rejects an absent value.
EqualOrNilFn_ViaPredicate(want, vgot) ==
    Predicate(vgot, <<"want ", GoSyntax(want), " or no value">>,
              vgot.val = want)

\* The validation function of EqualOrNil(query, want).
EqualOrNilFn(want, vgot) ==
    IF vgot.present /\ vgot.val # want
    THEN Errorf(<<"got ", FormatValue(vgot), ", want ",
                  GoSyntax(want), " or no value">>)
    ELSE Nil

ValidationFn(vd, vgot) ==
    CASE vd.kind = "Equal" ->
            Predicate(vgot, <<"want ", GoSyntax(vd.want)>>, vgot.val = vd.want)
      [] vd.kind = "NotEqual" ->
            Predicate(vgot, <<"want anything but ", GoSyntax(vd.want)>>,
                      vgot.val # vd.want)
      [] vd.kind = "Present" ->
            Predicate(vgot, <<"want any value">>, TRUE)
      [] vd.kind = "EqualOrNil" -> EqualOrNilFn(vd.want, vgot)
      [] vd.kind = "NotPresent" ->
            IF vgot.present
            THEN Errorf(<<"got ", FormatValue(vgot), ", want no value">>)
            ELSE Nil

\* ------------------------------------------------------------------ contexts
NoCtxErr == "none"

\* ctx.Err() of a context with a deadline that the caller may cancel.
CtxErr(ctx, t) ==
    IF ctx.canceled THEN "Canceled"
    ELSE IF t >= ctx.deadline THEN "DeadlineExceeded"
    ELSE NoCtxErr

\* Variant: Check hands the context of its caller to ygnmi.Lookup.
LookupCtxErr_CallerCtx(awaitCtxErr) == awaitCtxErr

\* Err() of the context Check hands to ygnmi.Lookup: context.Background(),
\* whatever the state of the context the caller of Await holds.
LookupCtxErr(awaitCtxErr) == NoCtxErr

\* What ygnmi.Lookup(ctx, client, query) can return: (value, nil) or
\* (nil, err); under a context that is done it fails with the context's error.
LookupOk(v) == [val |-> v, err |-> Nil]

LookupFailed(e) == [val |-> NilValue, err |-> e]

LookupResults(ctxErr) ==
    IF ctxErr # NoCtxErr THEN {LookupFailed(ContextError(ctxErr))}
    ELSE {LookupOk(v) : v \in Values}
            \cup {LookupFailed(StatusError("Unavailable")),
                  LookupFailed(StatusError("DeadlineExceeded"))}

\* The errors watcher.Await() can return when the stream ends without the
\* callback accepting a value: a transport error at any time; once the
\* context is done, ctx.Err() or the gRPC status of the broken stream.
StreamErrors(ctxErr) ==
    {StatusError("Unavailable")}
        \cup (IF ctxErr = NoCtxErr THEN {}
              ELSE {ContextError(ctxErr), StatusError(ctxErr)})

\* Variant: the two fields of the error swapped.
Check_Swapped(vd, lk) ==
    IF lk.err # Nil THEN validationError(lk.err, Nil)
    ELSE IF ValidationFn(vd, lk.val) # Nil
         THEN validationError(Nil, ValidationFn(vd, lk.val))
         ELSE NilReturn

\* Variant: a validator that remembers a timeout seen by an earlier call and
\* answers with it.
Check_RemembersTimeout(vd, lk) ==
    IF priorTimeout THEN validationError(Nil, StatusError("DeadlineExceeded"))
    ELSE IF lk.err # Nil THEN validationError(Nil, lk.err)
    ELSE IF ValidationFn(vd, lk.val) # Nil
         THEN validationError(ValidationFn(vd, lk.val), Nil)
         ELSE NilReturn

\* ------------------------------------------------------------------ Check
\* validation.Check on the Lookup result lk.
Check(vd, lk) ==
    IF lk.err # Nil THEN validationError(Nil, lk.err)
    ELSE IF ValidationFn(vd, lk.val) # Nil
         THEN validationError(ValidationFn(vd, lk.val), Nil)
         ELSE NilReturn

\* Variant: a failed Lookup is tried once more.
CheckLookups_Retry(lk) == IF lk.err # Nil THEN 2 ELSE 1

\* Calls of ygnmi.Lookup Check makes when the first one returned lk: that
\* one, whatever it returned.
CheckLookups(lk) == 1

\* Calls of the validation function Check makes on lk.
CheckFnCalls(lk) == IF lk.err # Nil THEN 0 ELSE 1

\* errors.As(err, &checkErr): every non-nil error of Check is a
\* *validationError.
ErrorsAsValidationError(err) == ~err.isNil

\* Variant: only a nil result of Check ends Await early.
AwaitReturnsCheck_NilOnly(err) == err.isNil

\* Variant: every result of Check ends Await.
AwaitReturnsCheck_Always(err) == TRUE

\* Await's test after its Check: return err as it is.
AwaitReturnsCheck(err) ==
    err.isNil \/ ~ErrorsAsValidationError(err) \/ err.failureCause # Nil

\* Variant: timeout < 0.
AwaitForIsCheck_Strict(timeout) == timeout < 0

\* AwaitFor's test: timeout <= 0 means Check.
AwaitForIsCheck(timeout) == timeout <= 0

\* Variant: deadline.After(time.Now()).
AwaitUntilIsCheck_After(deadline, t) == deadline > t

\* AwaitUntil's test: deadline.Before(time.Now()) means Check.
AwaitUntilIsCheck(deadline, t) == deadline < t

\* Variant: the timeout taken as the deadline itself.
TimeoutDeadline_Absolute(t, timeout) == timeout

\* The deadline of context.WithTimeout(context.Background(), timeout)
\* created at time t.
TimeoutDeadline(t, timeout) == t + timeout

\* Variant: an accepted value leaves the recorded failure in place.
WatchCallback_Sticky(vd, v, lastInvalid) ==
    IF ValidationFn(vd, v) = Nil THEN lastInvalid ELSE ValidationFn(vd, v)

\* Variant: a rejected value leaves the first recorded failure in place.
WatchCallback_KeepFirst(vd, v, lastInvalid) ==
    IF ValidationFn(vd, v) = Nil THEN Nil ELSE lastInvalid

\* The callback Await gives to Watch: the new lastInvalid.
WatchCallback(vd, v, lastInvalid) == ValidationFn(vd, v)

\* Variant: the error of a failed wait carries its cause only.
AwaitFailed_CauseOnly(err, lastInvalid) == validationError(Nil, err)

\* Variant: a cancelled wait is not reported as an error.
AwaitFailed_NilOnCancel(err, lastInvalid) ==
    IF err.code = "Canceled" THEN NilReturn
    ELSE IF lastInvalid # Nil THEN validationError(lastInvalid, err)
    ELSE validationError(Nil, err)

\* Variant: lastInvalid is one variable all calls share, so the error may
\* carry the failure another running call recorded.
AwaitFailed_SharedLastInvalid(err, lastInvalid) ==
    IF other.lastInvalid # Nil THEN validationError(other.lastInvalid, err)
    ELSE IF lastInvalid # Nil THEN validationError(lastInvalid, err)
    ELSE validationError(Nil, err)

\* The error Await builds when watcher.Await() returned err.
AwaitFailed(err, lastInvalid) ==
    IF lastInvalid # Nil THEN validationError(lastInvalid, err)
    ELSE validationError(Nil, err)

\* Variant: the cancel function of the derived context is never run.
DeferCancel_Leak(derived) == derived

\* defer cancel() of AwaitFor and AwaitUntil, run when the call returns: a
\* live derived context is released.
DeferCancel(derived) == IF derived = "live" THEN "released" ELSE derived

\* ------------------------------------------------------------------ state
Idle ==
    [pc |-> "idle", op |-> "none", arg |-> 0, vd |-> Present, startNow |-> 0,
     route |-> "none", ctxRef |-> "none", ctxDeadline |-> 0,
     ctxErrAtStart |-> NoCtxErr, derived |-> "none",
     lk |-> LookupFailed(Nil), lookups |-> 0, fnCalls |-> 0, watches |-> 0,
     delivered |-> 0, lastVal |-> NilValue, lastInvalid |-> Nil,
     streamErr |-> Nil, priorAtStart |-> FALSE, ret |-> NilReturn,
     path |-> TestPath, msg |-> <<>>]

Init ==
    /\ now = 0
    /\ sharedCtx \in [deadline : 1..(MaxTime + 1), canceled : {FALSE}]
    /\ call = Idle
    /\ other = Idle
    /\ ncalls = 0
    /\ priorTimeout = FALSE

\* Err() of the context the running Await watches under.
AwaitCtxErr ==
    IF call.ctxRef = "shared" THEN CtxErr(sharedCtx, now)
    ELSE IF call.ctxRef = "derived"
         THEN CtxErr([deadline |-> call.ctxDeadline, canceled |-> FALSE], now)
         ELSE NoCtxErr

\* The call record after Check ran on lk and returned to the test.
AfterCheck(c, lk) ==
    [c EXCEPT !.pc = "returned", !.lk = lk, !.lookups = @ + CheckLookups(lk),
              !.fnCalls = @ + CheckFnCalls(lk),
              !.lastVal = IF lk.err = Nil THEN lk.val ELSE @,
              !.ret = Check(c.vd, lk)]

\* The call record after Await's Check on lk: returned, or watching with the
\* Watch stream open.  A derived context is released when the call returns.
AfterAwaitCheck(c, lk) ==
    IF AwaitReturnsCheck(Check(c.vd, lk))
    THEN [AfterCheck(c, lk) EXCEPT
              !.derived = DeferCancel(c.derived)]
    ELSE [AfterCheck(c, lk) EXCEPT
              !.pc = "watching", !.ret = NilReturn, !.watches = @ + 1,
              !.lastInvalid = Check(c.vd, lk).validationErr]

Begin(opname, vd, a) ==
    [Idle EXCEPT !.op = opname, !.vd = vd, !.arg = a, !.startNow = now,
                 !.priorAtStart = priorTimeout]

\* vd.Check(client)
CallCheck ==
    /\ call.pc = "idle" /\ ncalls < MaxCalls
    /\ \E vd \in Validators : \E lk \in LookupResults(NoCtxErr) :
          call' = AfterCheck([Begin("Check", vd, 0) EXCEPT !.route = "Check"], lk)
    /\ ncalls' = ncalls + 1
    /\ UNCHANGED <<other, now, sharedCtx, priorTimeout>>

\* vd.Await(ctx, client) on the context the test shares between validators.
CallAwait ==
    /\ call.pc = "idle" /\ ncalls < MaxCalls
    /\ \E vd \in Validators :
       \E lk \in LookupResults(LookupCtxErr(CtxErr(sharedCtx, now))) :
          call' = AfterAwaitCheck(
                     [Begin("Await", vd, 0) EXCEPT
                         !.route = "Await", !.ctxRef = "shared",
                         !.ctxErrAtStart = CtxErr(sharedCtx, now)], lk)
    /\ ncalls' = ncalls + 1
    /\ UNCHANGED <<other, now, sharedCtx, priorTimeout>>

\* The call record of AwaitFor/AwaitUntil once it has derived a context with
\* the given deadline and entered Await.
Derive(c, deadline) ==
    [c EXCEPT !.route = "Await", !.ctxRef = "derived", !.ctxDeadline = deadline,
              !.derived = "live",
              !.ctxErrAtStart =
                  CtxErr([deadline |-> deadline, canceled |-> FALSE], now)]

\* vd.AwaitFor(timeout, client)
CallAwaitFor ==
    /\ call.pc = "idle" /\ ncalls < MaxCalls
    /\ \E vd \in Validators : \E timeout \in (0 - 1)..MaxTimeout :
          IF AwaitForIsCheck(timeout)
          THEN \E lk \in LookupResults(NoCtxErr) :
                  call' = AfterCheck(
                             [Begin("AwaitFor", vd, timeout) EXCEPT
                                 !.route = "Check"], lk)
          ELSE \E lk \in LookupResults(
                            LookupCtxErr(
                               CtxErr([deadline |-> TimeoutDeadline(now, timeout),
                                       canceled |-> FALSE], now))) :
                  call' = AfterAwaitCheck(
                             Derive(Begin("AwaitFor", vd, timeout),
                                    TimeoutDeadline(now, timeout)), lk)
    /\ ncalls' = ncalls + 1
    /\ UNCHANGED <<other, now, sharedCtx, priorTimeout>>

\* vd.AwaitUntil(deadline, client)
CallAwaitUntil ==
    /\ call.pc = "idle" /\ ncalls < MaxCalls
    /\ \E vd \in Validators : \E deadline \in 0..(MaxTime + 1) :
          IF AwaitUntilIsCheck(deadline, now)
          THEN \E lk \in LookupResults(NoCtxErr) :
                  call' = AfterCheck(
                             [Begin("AwaitUntil", vd, deadline) EXCEPT
                                 !.route = "Check"], lk)
          ELSE \E lk \in LookupResults(
                            LookupCtxErr(CtxErr([deadline |-> deadline,
                                                 canceled |-> FALSE], now))) :
                  call' = AfterAwaitCheck(
                             Derive(Begin("AwaitUntil", vd, deadline),
                                    deadline), lk)
    /\ ncalls' = ncalls + 1
    /\ UNCHANGED <<other, now, sharedCtx, priorTimeout>>

\* The call record c after the Watch stream delivered v and the callback
\* validated it: Continue on a rejection, nil on acceptance, which ends the
\* watch so that Await returns nil.
\* Variant: the callback hands a rejection to the watcher as its error
\* instead of ygnmi.Continue, which ends the stream.
Delivered_StopOnRejection(c, v) ==
    LET li == WatchCallback(c.vd, v, c.lastInvalid) IN
    [c EXCEPT !.delivered = @ + 1, !.fnCalls = @ + 1, !.lastVal = v,
              !.lastInvalid = li,
              !.pc = "returned",
              !.ret = IF li = Nil THEN NilReturn ELSE validationError(li, li),
              !.derived = DeferCancel(@)]

Delivered(c, v) ==
    LET li == WatchCallback(c.vd, v, c.lastInvalid) IN
    [c EXCEPT !.delivered = @ + 1, !.fnCalls = @ + 1, !.lastVal = v,
              !.lastInvalid = li,
              !.pc = IF li # Nil THEN "watching" ELSE "returned",
              !.ret = NilReturn,
              !.derived = IF li = Nil THEN DeferCancel(@) ELSE @]

\* The call record c after the Watch stream ended with err and Await
\* returned its error.
StreamEnded(c, err) ==
    [c EXCEPT !.pc = "returned", !.streamErr = err,
              !.ret = AwaitFailed(err, c.lastInvalid),
              !.derived = DeferCancel(@)]

\* The Watch stream delivers a value to the callback.
Deliver ==
    /\ call.pc = "watching" /\ call.delivered < MaxDeliver
    /\ \E v \in Values : call' = Delivered(call, v)
    /\ UNCHANGED <<other, now, sharedCtx, ncalls, priorTimeout>>

\* The Watch stream ends with an error and Await returns it.
StreamEnd ==
    /\ call.pc = "watching"
    /\ \E err \in StreamErrors(AwaitCtxErr) :
          /\ call' = StreamEnded(call, err)
          /\ priorTimeout' =
                (priorTimeout \/ (call.ctxRef = "shared"
                                    /\ err.code = "DeadlineExceeded"))
    /\ UNCHANGED <<other, now, sharedCtx, ncalls>>

\* The test consumes the returned error and moves to its next validator.
NextValidator ==
    /\ call.pc = "returned"
    /\ call' = Idle
    /\ UNCHANGED <<other, now, sharedCtx, ncalls, priorTimeout>>

\* Time passes.
Tick ==
    /\ now < MaxTime
    /\ now' = now + 1
    /\ UNCHANGED <<other, sharedCtx, call, ncalls, priorTimeout>>

\* The test cancels the context it shares between its Await calls.
CancelShared ==
    /\ CtxErr(sharedCtx, now) = NoCtxErr
    /\ sharedCtx' = [sharedCtx EXCEPT !.canceled = TRUE]
    /\ UNCHANGED <<other, now, call, ncalls, priorTimeout>>

Next ==
    \/ CallCheck
    \/ CallAwait
    \/ CallAwaitFor
    \/ CallAwaitUntil
    \/ Deliver
    \/ StreamEnd
    \/ NextValidator
    \/ Tick
    \/ CancelShared

Spec == Init /\ [][Next]_vars

\* ------------------------------------------------------ Predicate validators
\* The predicate functions of a test: any function of the value, the zero
\* value that an absent Value carries included.
PredicateFns == [0..MaxVal -> BOOLEAN]

WantMsgs ==
    {<<"want any value">>, <<"want a multiple of 4">>, <<"want ", "1">>}

\* Variant: the predicate is called before presence is looked at.
PredicateCalls_Eager(vgot) == 1

\* How often the validation function built by Predicate calls predicate:
\* !present || !predicate(got) skips the call for an absent value.
PredicateCalls(vgot) == IF ~vgot.present THEN 0 ELSE 1

\* A validator built with Predicate(query, wantMsg, predicate), and a value
\* fetched for it.
InitPredicate ==
    /\ now = 0
    /\ sharedCtx = [deadline |-> MaxTime + 1, canceled |-> FALSE]
    /\ ncalls = 0
    /\ priorTimeout = FALSE
    /\ other = Idle
    /\ \E vgot \in Values : \E wantMsg \in WantMsgs :
       \E predicate \in PredicateFns :
          call = [pc |-> "fetched", vgot |-> vgot, wantMsg |-> wantMsg,
                  predicate |-> predicate, invoked |-> 0, err |-> Nil]

\* The validation function runs on the fetched value.
RunPredicate ==
    /\ call.pc = "fetched"
    /\ call' = [call EXCEPT
                   !.pc = "validated",
                   !.invoked = PredicateCalls(call.vgot),
                   !.err = Predicate(call.vgot, call.wantMsg,
                                     call.predicate[call.vgot.val])]
    /\ UNCHANGED <<other, now, sharedCtx, ncalls, priorTimeout>>

NextPredicate == RunPredicate

SpecPredicate == InitPredicate /\ [][NextPredicate]_vars

\* ------------------------------------------------------------ UnorderedEqual
\* A Go slice of integer leaves: nil, or a backing array with its elements.
NilSlice == [isnil |-> TRUE, elems |-> <<>>]

Slice(elems) == [isnil |-> FALSE, elems |-> elems]

SeqsUpTo(n) == UNION {[1..k -> 1..MaxVal] : k \in 0..n}

Slices == {NilSlice} \cup {Slice(e) : e \in SeqsUpTo(MaxLen)}

SliceValues ==
    {[isnil |-> FALSE, present |-> FALSE, val |-> NilSlice]}
        \cup {[isnil |-> FALSE, present |-> TRUE, val |-> x] : x \in Slices}

\* The less function of the test: a strict total order of the elements.
less(a, b) == a < b

RECURSIVE InsertSorted(_, _)
InsertSorted(x, sorted) ==
    IF sorted = <<>> THEN <<x>>
    ELSE IF less(x, Head(sorted)) THEN <<x>> \o sorted
    ELSE <<Head(sorted)>> \o InsertSorted(x, Tail(sorted))

\* The sorted copy cmpopts.SortSlices(less) makes of a slice.
RECURSIVE SortSlice(_)
SortSlice(elems) ==
    IF elems = <<>> THEN <<>>
    ELSE InsertSorted(Head(elems), SortSlice(Tail(elems)))

SliceIsSorted(elems) ==
    \A i \in 1..(Len(elems) - 1) : ~less(elems[i + 1], elems[i])

\* cmpopts.SortSlices transforms a pair of slices unless both have at most
\* one element or both are sorted already.
SortSlicesApplies(x, y) ==
    /\ ~(Len(x.elems) <= 1 /\ Len(y.elems) <= 1)
    /\ ~(SliceIsSorted(x.elems) /\ SliceIsSorted(y.elems))

\* cmp.Equal of two slices without options: a nil slice equals only a nil
\* slice; otherwise equal lengths and equal elements in order.
SlicesEqual(x, y) ==
    IF x.isnil \/ y.isnil THEN x.isnil /\ y.isnil
    ELSE x.elems = y.elems

\* Variant: the slices are compared in the order they have.
cmpEqual_Ordered(x, y) == SlicesEqual(x, y)

\* cmp.Equal(got, want, cmpopts.SortSlices(less)).
cmpEqual(x, y) ==
    IF SortSlicesApplies(x, y)
    THEN SlicesEqual(Slice(SortSlice(x.elems)), Slice(SortSlice(y.elems)))
    ELSE SlicesEqual(x, y)

\* The validation function of UnorderedEqual(query, want, less).
UnorderedEqualFn(want, vgot) ==
    Predicate(vgot, <<"want ", GoSyntax(want)>>, cmpEqual(vgot.val, want))

\* A validator built with UnorderedEqual(query, want, less), and a value
\* fetched for it.
InitUnordered ==
    /\ now = 0
    /\ sharedCtx = [deadline |-> MaxTime + 1, canceled |-> FALSE]
    /\ ncalls = 0
    /\ priorTimeout = FALSE
    /\ other = Idle
    /\ \E vgot \in SliceValues : \E want \in Slices :
          call = [pc |-> "fetched", vgot |-> vgot, want |-> want,
                  err |-> Nil]

\* The validation function runs on the fetched value.
RunUnorderedEqual ==
    /\ call.pc = "fetched"
    /\ call' = [call EXCEPT !.pc = "validated",
                            !.err = UnorderedEqualFn(call.want, call.vgot)]
    /\ UNCHANGED <<other, now, sharedCtx, ncalls, priorTimeout>>

NextUnordered == RunUnorderedEqual

SpecUnordered == InitUnordered /\ [][NextUnordered]_vars

\* ------------------------------------------------------- TestBGP: the reboot
\* What tc.bootTime returns, val.Val() of the last watched value, and how
\* long the Watch took: a present boot time ends the Watch at once or later,
\* without one the Watch runs for gnmiWaitTime and the zero value comes back.
BootTimeResults ==
    {[bootTime |-> b, ok |-> TRUE, took |-> d] :
        b \in 1..MaxBootTime, d \in 0..gnmiWaitTime}
      \cup {[bootTime |-> 0, ok |-> FALSE, took |-> gnmiWaitTime]}

\* time.Since(now), saturated above maxWaitTime.
Since(elapsed, d) ==
    IF elapsed + d > maxWaitTime THEN maxWaitTime + 1 ELSE elapsed + d

\* Variant: an equal boot time counts as updated.
BootTimeNotUpdated_Less(ok, bootTime, initialBootTime) ==
    ~ok \/ bootTime < initialBootTime

\* !ok || bootTime <= initialBootTime
BootTimeNotUpdated(ok, bootTime, initialBootTime) ==
    ~ok \/ bootTime <= initialBootTime

\* TestBGP after the initial AFT verification.
InitReboot ==
    /\ now = 0
    /\ sharedCtx = [deadline |-> MaxTime + 1, canceled |-> FALSE]
    /\ ncalls = 0
    /\ priorTimeout = FALSE
    /\ other = Idle
    /\ call = [pc |-> "initialBootTime", initialBootTime |-> 0,
               bootTime |-> 0, ok |-> FALSE, elapsed |-> 0, i |-> 0,
               fatal |-> "none"]

Fatalf(c, why) == [c EXCEPT !.pc = "fatal", !.fatal = why]

\* initialBootTime, ok := tc.bootTime(t), fatal without a boot time.
GetInitialBootTime ==
    /\ call.pc = "initialBootTime"
    /\ \E r \in BootTimeResults :
          call' = IF ~r.ok THEN Fatalf(call, "initial boot time")
                  ELSE [call EXCEPT !.pc = "reboot",
                                    !.initialBootTime = r.bootTime]
    /\ UNCHANGED <<other, now, sharedCtx, ncalls, priorTimeout>>

\* gnoiClient.System().Reboot, then now := time.Now().
Reboot ==
    /\ call.pc = "reboot"
    /\ \E failed \in BOOLEAN :
          call' = IF failed THEN Fatalf(call, "reboot")
                  ELSE [call EXCEPT !.pc = "loop", !.elapsed = 0]
    /\ UNCHANGED <<other, now, sharedCtx, ncalls, priorTimeout>>

\* The head of the loop: fatal once more than maxWaitTime has passed.
LoopHead ==
    /\ call.pc = "loop"
    /\ call' = IF call.elapsed > maxWaitTime
               THEN Fatalf(call, "maxWaitTime")
               ELSE [call EXCEPT !.pc = "poll"]
    /\ UNCHANGED <<other, now, sharedCtx, ncalls, priorTimeout>>

\* bootTime, ok := tc.bootTime(t) and the test on it: sleep and poll again,
\* or leave the loop.
PollBootTime ==
    /\ call.pc = "poll"
    /\ \E r \in BootTimeResults :
          call' = [call EXCEPT
                     !.bootTime = r.bootTime, !.ok = r.ok,
                     !.elapsed = Since(@, r.took),
                     !.pc = IF BootTimeNotUpdated(r.ok, r.bootTime,
                                                  call.initialBootTime)
                            THEN "sleep" ELSE "waitForBGPSession"]
    /\ UNCHANGED <<other, now, sharedCtx, ncalls, priorTimeout>>

\* time.Sleep(sleepDuration); continue
Sleep ==
    /\ call.pc = "sleep"
    /\ call' = [call EXCEPT !.pc = "loop", !.elapsed = Since(@, 1),
                            !.i = @ + 1]
    /\ UNCHANGED <<other, now, sharedCtx, ncalls, priorTimeout>>

\* tc.waitForBGPSession(t) after the reboot, fatal on its error.
WaitForBGPSession ==
    /\ call.pc = "waitForBGPSession"
    /\ \E failed \in BOOLEAN :
          call' = IF failed THEN Fatalf(call, "BGP session")
                  ELSE [call EXCEPT !.pc = "verifyAFTState"]
    /\ UNCHANGED <<other, now, sharedCtx, ncalls, priorTimeout>>

\* tc.verifyAFTState(t, "After reboot AFT verification")
VerifyAFTState ==
    /\ call.pc = "verifyAFTState"
    /\ call' = [call EXCEPT !.pc = "done"]
    /\ UNCHANGED <<other, now, sharedCtx, ncalls, priorTimeout>>

NextReboot ==
    \/ GetInitialBootTime
    \/ Reboot
    \/ LoopHead
    \/ PollBootTime
    \/ Sleep
    \/ WaitForBGPSession
    \/ VerifyAFTState

\* The test goroutine keeps running: every call it makes returns.
SpecReboot == InitReboot /\ [][NextReboot]_vars /\ WF_vars(NextReboot)

\* ------------------------------------------------------------ verifyPrefixes
\* The functions from a subset of D to R: a Go map with keys in D.
Maps(D, R) == UNION {[K -> R] : K \in SUBSET D}

\* The ids of next hops and of next-hop groups in the AFT.
NextHopIDs == 1..bgpNHCount

NHGIDs == {1, 2}

Weights == 0..2

\* aft.NextHops: interface name and IP of a next hop, either can be empty.
NextHopsMaps ==
    Maps(NextHopIDs, [IntfName : {"", "eth0"}, IP : {"", "192.0.2.1"}])

\* A next-hop group: the ids of its next hops, in order and with
\* repetitions, and the weights it records for next hops.
NextHopGroupsAll ==
    [NHIDs : UNION {[1..k -> NextHopIDs] : k \in 0..bgpNHCount},
     NHWeights : Maps(NextHopIDs, Weights)]

\* The groups that record the same weight, above 0, for all their next hops.
NextHopGroupsEven ==
    {g \in NextHopGroupsAll :
        /\ Len(g.NHIDs) >= 1
        /\ DOMAIN g.NHWeights = NextHopIDs
        /\ \A id \in NextHopIDs : g.NHWeights[id] = 1}

\* aft.NextHopGroups: group 1 is any group, group 2 one with even weights.
NextHopGroupsMaps ==
    {m \in Maps(NHGIDs, NextHopGroupsAll) :
        2 \in DOMAIN m => m[2] \in NextHopGroupsEven}

\* aftcache.AFTData
AFTs ==
    [Prefixes : Maps(1..MaxRoutes, NHGIDs),
     NextHopGroups : NextHopGroupsMaps,
     NextHops : NextHopsMaps]

\* Variant: a weight of 0 is let through.
NextHopErr_NoWeightFloor(aft, nhg, nhgID, nhID, pfix, skip) ==
    IF nhID \notin DOMAIN aft.NextHops
    THEN Errorf(<<"next hop ", ToString(nhID),
                  " not found in AFT for next-hop group: ", ToString(nhgID),
                  " for prefix: ", ToString(pfix)>>)
    ELSE IF ~skip /\ aft.NextHops[nhID].IntfName = ""
    THEN Errorf(<<"next hop interface not found in AFT for next-hop: ",
                  ToString(nhID), " for prefix: ", ToString(pfix)>>)
    ELSE IF aft.NextHops[nhID].IP = ""
    THEN Errorf(<<"next hop IP not found in AFT for next-hop: ",
                  ToString(nhID), " for prefix: ", ToString(pfix)>>)
    ELSE IF nhID \notin DOMAIN nhg.NHWeights
    THEN Errorf(<<"next hop weight not found in AFT for next-hop: ",
                  ToString(nhID), " for prefix: ", ToString(pfix)>>)
    ELSE Nil

\* The checks of one next hop up to its weight being above 0.
NextHopErr(aft, nhg, nhgID, nhID, pfix, skip) ==
    IF nhID \notin DOMAIN aft.NextHops
    THEN Errorf(<<"next hop ", ToString(nhID),
                  " not found in AFT for next-hop group: ", ToString(nhgID),
                  " for prefix: ", ToString(pfix)>>)
    ELSE IF ~skip /\ aft.NextHops[nhID].IntfName = ""
    THEN Errorf(<<"next hop interface not found in AFT for next-hop: ",
                  ToString(nhID), " for prefix: ", ToString(pfix)>>)
    ELSE IF aft.NextHops[nhID].IP = ""
    THEN Errorf(<<"next hop IP not found in AFT for next-hop: ",
                  ToString(nhID), " for prefix: ", ToString(pfix)>>)
    ELSE IF nhID \notin DOMAIN nhg.NHWeights
    THEN Errorf(<<"next hop weight not found in AFT for next-hop: ",
                  ToString(nhID), " for prefix: ", ToString(pfix)>>)
    ELSE IF nhg.NHWeights[nhID] <= 0
    THEN Errorf(<<"next hop weight are not proper for next-hop: ",
                  ToString(nhID), " for prefix: ", ToString(pfix)>>)
    ELSE Nil

\* The loop over the next hops of a group, from index i (0-based as in the
\* code) with the reference weight firstWeight, 0 while there is none.
RECURSIVE NextHopsErr(_, _, _, _, _, _, _, _)
NextHopsErr(aft, nhg, nhgID, pfix, wantNHCount, skip, i, firstWeight) ==
    IF ~(i < wantNHCount) THEN Nil
    ELSE LET nhID == nhg.NHIDs[i + 1]
             err == NextHopErr(aft, nhg, nhgID, nhID, pfix, skip)
         IN  IF err # Nil THEN err
             ELSE LET weight == nhg.NHWeights[nhID] IN
                  IF firstWeight = 0
                  THEN NextHopsErr(aft, nhg, nhgID, pfix, wantNHCount, skip,
                                   i + 1, weight)
                  ELSE IF weight # firstWeight
                  THEN Errorf(<<"next hop group ", ToString(nhgID),
                                " has unequal weights. Expected ",
                                ToString(firstWeight), ", got ",
                                ToString(weight), " for next-hop ",
                                ToString(nhID), " for prefix ",
                                ToString(pfix)>>)
                  ELSE NextHopsErr(aft, nhg, nhgID, pfix, wantNHCount, skip,
                                   i + 1, firstWeight)

\* The body of the loop over the prefixes, for one prefix.
PrefixErr(aft, pfix, wantNHCount, skip) ==
    IF pfix \notin DOMAIN aft.Prefixes
    THEN Errorf(<<"prefix ", ToString(pfix), " not found in AFT">>)
    ELSE LET nhgID == aft.Prefixes[pfix] IN
         IF nhgID \notin DOMAIN aft.NextHopGroups
         THEN Errorf(<<"next hop group ", ToString(nhgID),
                       " not found in AFT for prefix ", ToString(pfix)>>)
         ELSE LET nhg == aft.NextHopGroups[nhgID] IN
              IF Len(nhg.NHIDs) # wantNHCount
              THEN Errorf(<<"next hop group ", ToString(nhgID), " has ",
                            ToString(Len(nhg.NHIDs)), " next hops, want ",
                            ToString(wantNHCount)>>)
              ELSE NextHopsErr(aft, nhg, nhgID, pfix, wantNHCount, skip,
                               0, 0)

\* netutil.GenCIDRs(t, ip, routeCount): routeCount prefixes, in order.
GenCIDRs(routeCount) == [k \in 1..routeCount |-> k]

RECURSIVE PrefixesErr(_, _, _, _)
PrefixesErr(aft, pfixes, wantNHCount, skip) ==
    IF pfixes = <<>> THEN Nil
    ELSE LET err == PrefixErr(aft, Head(pfixes), wantNHCount, skip) IN
         IF err # Nil THEN err
         ELSE PrefixesErr(aft, Tail(pfixes), wantNHCount, skip)

verifyPrefixes(aft, routeCount, wantNHCount, skip) ==
    PrefixesErr(aft, GenCIDRs(routeCount), wantNHCount, skip)

\* verifyAFTState is about to verify the prefixes of one protocol in the AFT
\* it got from the cache, on a DUT with or without the deviation
\* SkipInterfaceNameCheck.
InitVerify ==
    /\ now = 0
    /\ sharedCtx = [deadline |-> MaxTime + 1, canceled |-> FALSE]
    /\ ncalls = 0
    /\ priorTimeout = FALSE
    /\ other = Idle
    /\ \E aft \in AFTs : \E wantNHCount \in {isisNHCount, bgpNHCount} :
       \E skip \in BOOLEAN :
          call = [pc |-> "cached", aft |-> aft, routeCount |-> MaxRoutes,
                  wantNHCount |-> wantNHCount,
                  SkipInterfaceNameCheck |-> skip, err |-> Nil]

VerifyPrefixes ==
    /\ call.pc = "cached"
    /\ call' = [call EXCEPT
                   !.pc = "verified",
                   !.err = verifyPrefixes(call.aft, call.routeCount,
                                          call.wantNHCount,
                                          call.SkipInterfaceNameCheck)]
    /\ UNCHANGED <<other, now, sharedCtx, ncalls, priorTimeout>>

NextVerify == VerifyPrefixes

SpecVerify == InitVerify /\ [][NextVerify]_vars

\* ------------------------------------------------------------ waiting calls
\* The Watch stream delivers a value while its context is not done: a stream
\* that reports the end of its context as its terminal error delivers
\* nothing after it.
DeliverBeforeEnd ==
    /\ AwaitCtxErr = NoCtxErr
    /\ Deliver

\* The Watch stream ends because its context is done.
ContextEndsStream ==
    /\ AwaitCtxErr # NoCtxErr
    /\ StreamEnd

NextLive ==
    \/ CallAwait
    \/ DeliverBeforeEnd
    \/ StreamEnd
    \/ NextValidator
    \/ Tick
    \/ CancelShared

\* Await calls on the shared context, with a stream that ends once its
\* context is done.
SpecLive == Init /\ [][NextLive]_vars /\ WF_vars(ContextEndsStream)

\* ---------------------------------------------------------- concurrent calls
\* The validators the second goroutine runs.
OtherValidators == {Equal(1), NotPresent}

\* Both goroutines start with no call running; the shared context has no
\* deadline within the run and ends only by being cancelled.
InitConc ==
    /\ now = 0
    /\ sharedCtx = [deadline |-> MaxTime + 1, canceled |-> FALSE]
    /\ call = Idle
    /\ other = Idle
    /\ ncalls = 0
    /\ priorTimeout = FALSE

\* vd.Check(client) in the second goroutine.
OtherCallCheck ==
    /\ other.pc = "idle" /\ ncalls < MaxCalls
    /\ \E vd \in OtherValidators : \E lk \in LookupResults(NoCtxErr) :
          other' = AfterCheck([Begin("Check", vd, 0) EXCEPT !.route = "Check"], lk)
    /\ ncalls' = ncalls + 1
    /\ UNCHANGED <<call, now, sharedCtx, priorTimeout>>

\* vd.Await(ctx, client) in the second goroutine, on the shared context.
OtherCallAwait ==
    /\ other.pc = "idle" /\ ncalls < MaxCalls
    /\ \E vd \in OtherValidators :
       \E lk \in LookupResults(LookupCtxErr(CtxErr(sharedCtx, now))) :
          other' = AfterAwaitCheck(
                      [Begin("Await", vd, 0) EXCEPT
                          !.route = "Await", !.ctxRef = "shared",
                          !.ctxErrAtStart = CtxErr(sharedCtx, now)], lk)
    /\ ncalls' = ncalls + 1
    /\ UNCHANGED <<call, now, sharedCtx, priorTimeout>>

\* The second goroutine's Watch stream delivers a value to its callback.
OtherDeliver ==
    /\ other.pc = "watching" /\ other.delivered < MaxDeliver
    /\ \E v \in Values : other' = Delivered(other, v)
    /\ UNCHANGED <<call, now, sharedCtx, ncalls, priorTimeout>>

\* The second goroutine's Watch stream ends with an error.
OtherStreamEnd ==
    /\ other.pc = "watching"
    /\ \E err \in StreamErrors(CtxErr(sharedCtx, now)) :
          other' = StreamEnded(other, err)
    /\ UNCHANGED <<call, now, sharedCtx, ncalls, priorTimeout>>

NextConc ==
    \/ CallCheck
    \/ CallAwait
    \/ Deliver
    \/ StreamEnd
    \/ OtherCallCheck
    \/ OtherCallAwait
    \/ OtherDeliver
    \/ OtherStreamEnd
    \/ CancelShared

SpecConc == InitConc /\ [][NextConc]_vars

\* ------------------------------------------------------------------ Error()
\* The errors a validation function of the factories can return.
ValidationErrs ==
    {ValidationFn(vd, v) : vd \in Validators, v \in Values} \ {Nil}

\* The errors Lookup or the Watch stream can fail with.
FailureCauses ==
    {StatusError(c) : c \in {"Unavailable", "DeadlineExceeded", "Canceled"}}
        \cup {ContextError(c) : c \in {"DeadlineExceeded", "Canceled"}}

\* Every validationError value, on a query with any path, in the hands of
\* the test that got it back.
InitError ==
    /\ now = 0
    /\ sharedCtx = [deadline |-> MaxTime + 1, canceled |-> FALSE]
    /\ ncalls = 0
    /\ priorTimeout = FALSE
    /\ other = Idle
    /\ \E path \in Paths :
       \E v \in ValidationErrs \cup {Nil} : \E f \in FailureCauses \cup {Nil} :
          call = [Idle EXCEPT !.pc = "returned", !.path = path,
                              !.ret = validationError(v, f)]

\* The test prints the error: t.Error(err) calls err.Error().
RenderError ==
    /\ call.pc = "returned" /\ ~call.ret.isNil
    /\ call' = [call EXCEPT !.pc = "reported",
                            !.msg = Error(call.path, call.ret)]
    /\ UNCHANGED <<other, now, sharedCtx, ncalls, priorTimeout>>

NextError == RenderError

SpecError == InitError /\ [][NextError]_vars

\* ------------------------------------------------------------------ claims
Returned == call.pc = "returned"

Started == call.pc # "idle"

\* What the validation function says of the value the Lookup fetched.
FetchedVerdict == ValidationFn(call.vd, call.lk.val)

FetchFailed == call.lk.err # Nil

FetchedAccepted == ~FetchFailed /\ FetchedVerdict = Nil

FetchedRejected == ~FetchFailed /\ FetchedVerdict # Nil

\* The call did exactly what Check does on the fetched result: one Lookup,
\* no derived context, no Watch stream, Check's return value.
BehavesAsCheck ==
    /\ Returned
    /\ call.route = "Check"
    /\ call.lookups = 1
    /\ call.watches = 0
    /\ call.derived = "none"
    /\ call.fnCalls = CheckFnCalls(call.lk)
    /\ call.ret = Check(call.vd, call.lk)

\* The call did what a caller of Check observes: one Lookup, no Watch
\* stream, the validation function run as Check runs it, Check's return value.
ObservablyAsCheck ==
    /\ Returned
    /\ call.lookups = 1
    /\ call.watches = 0
    /\ call.fnCalls = CheckFnCalls(call.lk)
    /\ call.ret = Check(call.vd, call.lk)

\* C1: Check performs exactly one Lookup and yields one of three outcomes: on
\* a failed Lookup an error with failureCause set to that failure,
\* validationErr unset and the validation function never invoked; on a
\* rejected value an error with validationErr set and failureCause unset;
\* otherwise nil.  An error of Check has exactly one of the two fields set.
C1_CheckOutcome ==
    (call.op = "Check" /\ Returned) =>
        /\ call.lookups = 1
        /\ FetchFailed =>
              /\ ~call.ret.isNil
              /\ call.ret.failureCause = call.lk.err
              /\ call.ret.validationErr = Nil
              /\ call.fnCalls = 0
        /\ FetchedRejected =>
              /\ ~call.ret.isNil
              /\ call.ret.validationErr = FetchedVerdict
              /\ call.ret.failureCause = Nil
              /\ call.fnCalls = 1
        /\ FetchedAccepted => call.ret = NilReturn
        /\ ~call.ret.isNil =>
              (call.ret.validationErr # Nil) # (call.ret.failureCause # Nil)

C1_Witness ==
    /\ call.op = "Check" /\ Returned
    /\ FetchedRejected
    /\ call.ret.validationErr # Nil

\* C2: Await begins with a Check; when that Check returns nil or a fetch
\* failure, Await returns exactly that result and opens no Watch stream; the
\* stream is opened only when the fetch succeeded and the value was rejected.
C2_AwaitStartsWithCheck ==
    (call.route = "Await" /\ Started) =>
        /\ call.lookups = 1
        /\ (FetchFailed \/ FetchedAccepted) =>
              /\ Returned
              /\ call.ret = Check(call.vd, call.lk)
              /\ call.watches = 0
        /\ (call.watches = 1) <=> FetchedRejected
        /\ call.watches <= 1

C2_Witness ==
    /\ call.op = "Await" /\ Returned
    /\ FetchFailed
    /\ call.ret.failureCause = call.lk.err
    /\ call.watches = 0

\* C3: in its watch phase Await returns nil at the first delivered value the
\* validation function accepts, after any number of rejected deliveries; the
\* result carries no error of the earlier rejections and nothing is validated
\* after the accepted value.
C3_NilAtFirstAccepted ==
    (call.route = "Await" /\ call.watches = 1 /\ call.delivered >= 1) =>
        /\ (ValidationFn(call.vd, call.lastVal) = Nil) =>
              /\ Returned
              /\ call.ret = NilReturn
              /\ call.streamErr = Nil
        /\ call.pc = "watching" => ValidationFn(call.vd, call.lastVal) # Nil
        /\ call.fnCalls = 1 + call.delivered

C3_Witness ==
    /\ call.route = "Await" /\ Returned
    /\ call.delivered = 2
    /\ ValidationFn(call.vd, call.lastVal) = Nil
    /\ call.ret = NilReturn

\* C4: when the watch stream ends without an accepted value, the error has
\* failureCause equal to the error that ended the stream and validationErr
\* equal to the failure of the most recently validated value.
C4_LastFailureKept ==
    (Returned /\ call.streamErr # Nil) =>
        /\ ~call.ret.isNil
        /\ call.ret.failureCause = call.streamErr
        /\ call.ret.validationErr = ValidationFn(call.vd, call.lastVal)
        /\ call.ret.validationErr # Nil

C4_Witness ==
    /\ Returned /\ call.streamErr # Nil
    /\ call.delivered = 2
    /\ call.ret.validationErr # FetchedVerdict
    /\ call.ret.validationErr = ValidationFn(call.vd, call.lastVal)

\* C5: every non-nil error Await(ctx) returns has failureCause set, on the
\* initial Check's path and on the watch path alike.
C5_AwaitErrorHasCause ==
    (call.route = "Await" /\ Returned /\ ~call.ret.isNil) =>
        call.ret.failureCause # Nil

C5_Witness ==
    /\ call.op = "Await" /\ Returned /\ ~call.ret.isNil
    /\ call.ret.validationErr # Nil
    /\ call.ret.failureCause # Nil

LaterAwaitOnExpired ==
    /\ call.op = "Await" /\ Started
    /\ call.priorAtStart
    /\ call.ctxErrAtStart = "DeadlineExceeded"

C8_AwaitForNonPositive ==
    (call.op = "AwaitFor" /\ Started /\ call.arg <= 0) => BehavesAsCheck

C8_Witness ==
    /\ call.op = "AwaitFor" /\ Returned /\ call.arg = 0
    /\ FetchedRejected
    /\ call.ret = validationError(FetchedVerdict, Nil)

\* C9 as claimed: for every deadline not after the current time (earlier or
\* equal), AwaitUntil behaves exactly as Check.
C9_AwaitUntilNotAfter ==
    (call.op = "AwaitUntil" /\ Started /\ call.arg <= call.startNow) =>
        ObservablyAsCheck

\* C9 amended: for every deadline strictly before the current time,
\* AwaitUntil behaves exactly as Check; a deadline equal to the current time
\* takes AwaitUntil into Await under a derived context already due.
C9_AwaitUntilPast ==
    /\ (call.op = "AwaitUntil" /\ Started /\ call.arg < call.startNow) =>
          ObservablyAsCheck
    /\ (call.op = "AwaitUntil" /\ Started /\ call.arg = call.startNow) =>
          /\ call.route = "Await"
          /\ call.derived # "none"
          /\ call.ctxErrAtStart = "DeadlineExceeded"

C9_Witness ==
    /\ call.op = "AwaitUntil" /\ Returned /\ call.arg < call.startNow
    /\ FetchedRejected
    /\ call.ret = validationError(FetchedVerdict, Nil)

\* The timeout of the running AwaitFor, or the one AwaitFor would be given
\* for the deadline of the running AwaitUntil.
CallTimeout ==
    IF call.op = "AwaitFor" THEN call.arg ELSE call.arg - call.startNow

\* The deadline of the running AwaitUntil, or the one AwaitUntil would be
\* given for the timeout of the running AwaitFor.
CallDeadline ==
    IF call.op = "AwaitUntil" THEN call.arg ELSE call.startNow + call.arg

\* The running call is an Await under a derived context with deadline d.
AwaitsUntil(d) == call.route = "Await" /\ call.ctxDeadline = d

\* The running AwaitFor or AwaitUntil does what the other one does for the
\* same instant and budget: as Check where the other is Check, and an Await
\* under the other's deadline where the other derives a context.
DoesAsTheOther ==
    /\ (call.op = "AwaitUntil" /\ AwaitForIsCheck(CallTimeout)) =>
          ObservablyAsCheck
    /\ (call.op = "AwaitUntil" /\ ~AwaitForIsCheck(CallTimeout)) =>
          AwaitsUntil(TimeoutDeadline(call.startNow, CallTimeout))
    /\ (call.op = "AwaitFor" /\ AwaitUntilIsCheck(CallDeadline, call.startNow)) =>
          ObservablyAsCheck
    /\ (call.op = "AwaitFor" /\ ~AwaitForIsCheck(call.arg)) =>
          /\ ~AwaitUntilIsCheck(CallDeadline, call.startNow)
          /\ AwaitsUntil(CallDeadline)

CauseIsDeadlineStatus ==
    /\ call.ret.failureCause.kind = "grpcStatus"
    /\ call.ret.failureCause.code = "DeadlineExceeded"

\* C11: the rendered message follows the priority: timeout cause with a
\* validation error "<path>: <validationErr> (deadline exceeded)"; timeout
\* cause alone "<path>: deadline exceeded before any values were fetched";
\* any other cause "<path>: <failureCause>", the validation error not shown;
\* validation error alone "<path>: <validationErr>"; neither "<path>: unknown
\* error".
C11_MessagePriority ==
    call.pc = "reported" =>
        LET p == FormatPath(call.path)
            v == call.ret.validationErr
            f == call.ret.failureCause
        IN  call.msg =
              IF CauseIsDeadlineStatus /\ v # Nil
                  THEN p \o <<": ">> \o v.text \o <<" (deadline exceeded)">>
              ELSE IF CauseIsDeadlineStatus
                  THEN p \o <<": deadline exceeded before any values were fetched">>
              ELSE IF f # Nil THEN p \o <<": ">> \o f.text
              ELSE IF v # Nil THEN p \o <<": ">> \o v.text
              ELSE p \o <<": unknown error">>

C11_Witness ==
    /\ call.pc = "reported"
    /\ call.ret.validationErr # Nil
    /\ call.ret.failureCause = StatusError("Unavailable")
    /\ call.msg = <<"/some/path", ": ", "Unavailable">>

\* The pieces of text occur in msg, in order and side by side.
Contains(msg, text) ==
    \E i \in 1..(Len(msg) - Len(text) + 1) :
        SubSeq(msg, i, i + Len(text) - 1) = text

\* A non-nil error came back from an Await during which a value was fetched
\* and rejected.
AwaitFailedAfterRejection ==
    /\ call.route = "Await" /\ Returned /\ ~call.ret.isNil
    /\ call.fnCalls >= 1

\* C12 as claimed: the message of every non-nil error of Await contains the
\* text of the last validation failure whenever a value was fetched and
\* rejected during that Await, whatever ended the wait.
C12_MessageShowsLastFailure ==
    AwaitFailedAfterRejection =>
        Contains(Error(call.path, call.ret),
                 ValidationFn(call.vd, call.lastVal).text)

\* C12 amended: the message contains the text of the last validation failure
\* when a value was rejected and the wait was ended by a gRPC
\* DeadlineExceeded status; when cancellation, a transport error or a bare
\* context error ended it the message is "<path>: <failureCause>" without the
\* validation failure; when no value was fetched it shows no validation
\* failure either.
C12_MessageShowsLastFailureOnTimeout ==
    (call.route = "Await" /\ Returned /\ ~call.ret.isNil) =>
        LET msg == Error(call.path, call.ret)
            last == ValidationFn(call.vd, call.lastVal).text
        IN  /\ (call.fnCalls >= 1 /\ CauseIsDeadlineStatus) =>
                  msg = FormatPath(call.path) \o <<": ">> \o last
                            \o <<" (deadline exceeded)">>
            /\ (call.fnCalls >= 1 /\ ~CauseIsDeadlineStatus) =>
                  /\ msg = FormatPath(call.path) \o <<": ">>
                              \o call.ret.failureCause.text
                  /\ ~Contains(msg, last)
            /\ call.fnCalls = 0 =>
                  /\ call.ret.validationErr = Nil
                  /\ ~Contains(msg, <<"got ">>)

C12_Witness ==
    /\ AwaitFailedAfterRejection
    /\ call.delivered >= 1
    /\ CauseIsDeadlineStatus
    /\ Contains(Error(call.path, call.ret),
                ValidationFn(call.vd, call.lastVal).text)

\* C13: within one Await no retry is performed: exactly one Lookup, at most
\* one Watch stream, and after a fetch failure or after the stream ended with
\* an error the call has returned without issuing either again.
C13_NoRetry ==
    (call.route = "Await" /\ Started) =>
        /\ call.lookups = 1
        /\ call.watches <= 1
        /\ FetchFailed =>
              (Returned /\ call.watches = 0
                 /\ call.ret.failureCause = call.lk.err)
        /\ call.streamErr # Nil =>
              (Returned /\ call.watches = 1
                 /\ call.ret.failureCause = call.streamErr)

C13_Witness ==
    /\ call.route = "Await" /\ Returned
    /\ call.streamErr # Nil
    /\ call.lookups = 1 /\ call.watches = 1

\* The result of the call c as its own Lookup result, deliveries and stream
\* error alone decide it.
Outcome(c) ==
    IF c.lk.err # Nil THEN validationError(Nil, c.lk.err)
    ELSE IF c.route = "Check"
         THEN IF ValidationFn(c.vd, c.lk.val) # Nil
              THEN validationError(ValidationFn(c.vd, c.lk.val), Nil)
              ELSE NilReturn
    ELSE IF ValidationFn(c.vd, c.lk.val) = Nil THEN NilReturn
    ELSE IF c.streamErr # Nil
         THEN validationError(ValidationFn(c.vd, c.lastVal), c.streamErr)
    ELSE NilReturn

OwnOutcome == Outcome(call)

\* C14: a Validator keeps no state between invocations: every call issues a
\* fresh fetch, its result is decided by the values fetched or delivered
\* during that call alone, whatever earlier calls saw, and no step of a call
\* changes the validator's query or validation function.
C14_Stateless ==
    /\ [](Started => call.lookups = 1)
    /\ [](Returned => call.ret = OwnOutcome)
    /\ [][(call.pc # "idle" /\ call'.pc # "idle") =>
             (call'.vd = call.vd /\ call'.path = call.path)]_vars

C14_Witness ==
    /\ ncalls = 2 /\ Returned
    /\ call.priorAtStart
    /\ call.lookups = 1
    /\ call.ret = NilReturn

\* C15: concurrent executions of Check and Await share no mutable state:
\* under every interleaving each call returns the result it would return
\* alone on the values it fetched and was delivered, and a step of one call
\* leaves the other call, its recorded last failure included, as it was.
C15_NoSharedState ==
    /\ [](call.pc = "returned" => call.ret = Outcome(call))
    /\ [](other.pc = "returned" => other.ret = Outcome(other))
    /\ [](call.pc = "watching" =>
             call.lastInvalid = ValidationFn(call.vd, call.lastVal))
    /\ [](other.pc = "watching" =>
             other.lastInvalid = ValidationFn(other.vd, other.lastVal))
    /\ [][call' # call => other' = other]_vars

C15_Witness ==
    /\ call.pc = "returned" /\ call.streamErr # Nil
    /\ other.pc = "watching" /\ other.delivered >= 1
    /\ call.delivered >= 1
    /\ other.lastInvalid # call.ret.validationErr
    /\ call.ret.validationErr = ValidationFn(call.vd, call.lastVal)

\* C16: the context AwaitFor (timeout > 0) or AwaitUntil (deadline not in
\* the past) derives is released on every exit path of the call: nil after
\* the initial Check, a fetch failure, nil from the watch phase, an error
\* after the stream ended.  No derived context is live once the call returned.
C16_DerivedContextReleased ==
    /\ (call.op \in {"AwaitFor", "AwaitUntil"} /\ call.route = "Await") =>
          /\ Returned => call.derived = "released"
          /\ call.pc = "watching" => call.derived = "live"
    /\ call.derived = "live" => call.pc = "watching"
    /\ call.route # "Await" => call.derived = "none"

C16_Witness ==
    /\ call.op = "AwaitFor" /\ Returned
    /\ call.delivered >= 1
    /\ call.ret = NilReturn
    /\ call.derived = "released"

\* C17: in its watch phase Await keeps blocking while no delivered value
\* passes, the context is not done and the stream has not failed: it leaves
\* the watch only by returning nil on an accepted delivery or an error on the
\* end of the stream; and once the context has expired or been cancelled
\* Await eventually returns, with an error.
C17_BlocksUntilContextEnds ==
    /\ [][(call.pc = "watching" /\ call'.pc # "watching") =>
             /\ call'.pc = "returned"
             /\ \/ /\ call'.delivered = call.delivered + 1
                   /\ ValidationFn(call.vd, call'.lastVal) = Nil
                   /\ call'.ret = NilReturn
                \/ /\ call'.streamErr # Nil
                   /\ call'.delivered = call.delivered
                   /\ ~call'.ret.isNil]_vars
    /\ (call.pc = "watching" /\ AwaitCtxErr # NoCtxErr)
          ~> (Returned /\ ~call.ret.isNil /\ call.streamErr # Nil)

C17_Witness ==
    /\ Returned /\ call.op = "Await"
    /\ call.ctxErrAtStart = NoCtxErr
    /\ call.delivered >= 1
    /\ call.streamErr = ContextError("Canceled")
    /\ ~call.ret.isNil

\* A Check call that has returned after its Lookup fetched a value.
CheckedFetched(kind) ==
    /\ Returned /\ call.op = "Check"
    /\ call.vd.kind = kind
    /\ ~FetchFailed

\* C18: Equal(q, want).Check returns nil iff the value is present and equal
\* to want; otherwise, also for an absent value, it returns a validation
\* failure (validationErr set, failureCause unset) with the message
\* "got <value>, want <want>".
C18_Equal ==
    CheckedFetched("Equal") =>
        LET v == call.lk.val
            want == call.vd.want
            got == IF v.present THEN GoSyntax(v.val) ELSE "no value"
        IN  IF v.present /\ v.val = want
            THEN call.ret = NilReturn
            ELSE /\ ~call.ret.isNil
                 /\ call.ret.failureCause = Nil
                 /\ call.ret.validationErr # Nil
                 /\ call.ret.validationErr.text =
                        <<"got ", got, ", ", "want ", GoSyntax(want)>>

C18_Witness ==
    /\ CheckedFetched("Equal")
    /\ call.lk.val = PresentVal(2)
    /\ call.vd.want = 1
    /\ call.ret.validationErr.text = <<"got ", "2", ", ", "want ", "1">>

\* C19: NotEqual(q, x).Check fails on an absent value, fails on a present
\* value equal to x, and succeeds on every present value not equal to x.
C19_NotEqual ==
    CheckedFetched("NotEqual") =>
        LET v == call.lk.val
            x == call.vd.want
        IN  /\ ~v.present => ~call.ret.isNil
            /\ (v.present /\ v.val = x) => ~call.ret.isNil
            /\ (v.present /\ v.val # x) => call.ret = NilReturn
            /\ ~call.ret.isNil =>
                  /\ call.ret.failureCause = Nil
                  /\ call.ret.validationErr # Nil

C19_Witness ==
    /\ CheckedFetched("NotEqual")
    /\ call.lk.val = Absent
    /\ ~call.ret.isNil
    /\ call.ret.validationErr.text =
           <<"got ", "no value", ", ", "want anything but ", "1">>

\* C20: of Present(q) and NotPresent(q) exactly one accepts a fetched value:
\* Present iff the value is present, NotPresent iff it is absent; on an
\* absent value Present fails with "got no value, want any value".
C20_PresentXorNotPresent ==
    /\ CheckedFetched("Present") =>
          /\ call.ret.isNil <=> call.lk.val.present
          /\ call.ret.isNil <=> ValidationFn(NotPresent, call.lk.val) # Nil
          /\ ~call.lk.val.present =>
                call.ret = validationError(
                    Errorf(<<"got ", "no value", ", ", "want any value">>),
                    Nil)
    /\ CheckedFetched("NotPresent") =>
          /\ call.ret.isNil <=> ~call.lk.val.present
          /\ call.ret.isNil <=> ValidationFn(Present, call.lk.val) # Nil

C20_Witness ==
    /\ CheckedFetched("Present")
    /\ call.lk.val = Absent
    /\ call.ret.validationErr.text =
           <<"got ", "no value", ", ", "want any value">>

C21_WitnessRejected ==
    /\ CheckedFetched("EqualOrNil")
    /\ call.lk.val = PresentVal(2) /\ call.vd.want = 1
    /\ call.ret.validationErr.text =
           <<"got ", "2", ", want ", "1", " or no value">>

\* C22: a validator built with Predicate accepts a value iff it is present
\* and the predicate is true of it; the predicate is not called on an absent
\* value; every rejection reads "got <FormatValue(value)>, <wantMsg>".
C22_Predicate ==
    call.pc = "validated" =>
        LET v == call.vgot IN
        /\ call.err = Nil <=> (v.present /\ call.predicate[v.val])
        /\ ~v.present => call.invoked = 0
        /\ v.present => call.invoked = 1
        /\ call.err # Nil =>
              call.err.text =
                  <<"got ", IF v.present THEN GoSyntax(v.val) ELSE "no value",
                    ", ">> \o call.wantMsg

\* An absent value whose zero value the predicate would have accepted.
C22_Witness ==
    /\ call.pc = "validated"
    /\ call.vgot = Absent
    /\ call.predicate[0]
    /\ call.invoked = 0
    /\ call.err # Nil
    /\ call.err.text = <<"got ", "no value", ", ", "want a multiple of 4">>

\* How often e occurs in a sequence.
Occurrences(elems, e) == Cardinality({i \in 1..Len(elems) : elems[i] = e})

\* Equal as multisets: every element occurs equally often in both.
SameMultiset(a, b) ==
    \A e \in 1..MaxVal : Occurrences(a, e) = Occurrences(b, e)

\* C23 as stated: UnorderedEqual accepts a present sequence iff it equals
\* want as a multiset, and rejects an absent value.
C23_UnorderedEqual ==
    call.pc = "validated" =>
        (call.err = Nil <=>
            (call.vgot.present
               /\ SameMultiset(call.vgot.val.elems, call.want.elems)))

\* C23, amended: UnorderedEqual accepts a present sequence iff it equals
\* want as a multiset and is nil exactly when want is nil (an empty non-nil
\* slice and a nil slice are not equal); an absent value is rejected.
C23_UnorderedEqualNilAware ==
    call.pc = "validated" =>
        (call.err = Nil <=>
            (/\ call.vgot.present
             /\ SameMultiset(call.vgot.val.elems, call.want.elems)
             /\ call.vgot.val.isnil <=> call.want.isnil))

\* A permutation of want that is not want itself is accepted.
C23_Witness ==
    /\ call.pc = "validated"
    /\ call.vgot.present
    /\ call.vgot.val = Slice(<<2, 1, 1>>)
    /\ call.want = Slice(<<1, 2, 1>>)
    /\ call.err = Nil

NoValuesFetchedMsg(path) ==
    FormatPath(path) \o <<": deadline exceeded before any values were fetched">>

\* C24: every error Await returns after entering its watch phase carries a
\* validationErr: that of the initial Check when the stream ended before it
\* delivered a value, otherwise that of the last delivered value.  So the
\* message "deadline exceeded before any values were fetched" comes only
\* from a Lookup that timed out, never from the watch phase.
C24_WatchErrorHasValidationErr ==
    (call.route = "Await" /\ Returned /\ ~call.ret.isNil) =>
        /\ call.watches = 1 =>
              /\ call.ret.validationErr # Nil
              /\ call.delivered = 0 =>
                    call.ret.validationErr = ValidationFn(call.vd, call.lk.val)
              /\ call.delivered >= 1 =>
                    call.ret.validationErr = ValidationFn(call.vd, call.lastVal)
        /\ Error(call.path, call.ret) = NoValuesFetchedMsg(call.path) =>
              /\ call.watches = 0
              /\ call.lk.err = StatusError("DeadlineExceeded")

\* The watch ends on a DeadlineExceeded status before any delivery.
C24_Witness ==
    /\ call.route = "Await" /\ Returned
    /\ call.watches = 1 /\ call.delivered = 0
    /\ call.streamErr = StatusError("DeadlineExceeded")
    /\ call.ret.validationErr = ValidationFn(call.vd, call.lk.val)
    /\ Error(call.path, call.ret) # NoValuesFetchedMsg(call.path)

\* The message is produced by a Lookup that timed out.
C24_WitnessLookupTimeout ==
    /\ call.route = "Await" /\ Returned
    /\ call.watches = 0
    /\ Error(call.path, call.ret) = NoValuesFetchedMsg(call.path)

\* C25: Check and Await return nil only if the validation function accepted
\* a value obtained during that call: the value its Lookup fetched or a
\* value its watch stream delivered.  A fetch failure, a rejected value, a
\* cancellation or the end of the stream never gives nil.
C25_NilOnlyOnAcceptedValue ==
    (Returned /\ call.ret.isNil) =>
        /\ call.lookups = 1
        /\ ~FetchFailed
        /\ call.streamErr = Nil
        /\ \/ /\ call.watches = 0
              /\ ValidationFn(call.vd, call.lk.val) = Nil
           \/ /\ call.watches = 1 /\ call.delivered >= 1
              /\ call.lastVal \in Values
              /\ ValidationFn(call.vd, call.lastVal) = Nil

\* A wait that saw its fetched value and a delivered value rejected before
\* a delivered value was accepted, after the shared context was cancelled.
C25_Witness ==
    /\ Returned /\ call.ret.isNil
    /\ call.op = "Await"
    /\ FetchedRejected
    /\ call.delivered = 2
    /\ sharedCtx.canceled

\* The watch stream of the call has just delivered a value that the
\* validation function rejects.
RejectedDelivery ==
    /\ call.pc = "watching"
    /\ call'.delivered = call.delivered + 1
    /\ ValidationFn(call.vd, call'.lastVal) # Nil

\* C26: in Await's watch phase a rejected value never ends the wait: the
\* callback records the failure and the wait goes on; Await returns only
\* when a delivered value is accepted or when the stream itself ends.
C26_RejectionContinues ==
    /\ [][RejectedDelivery =>
             /\ call'.pc = "watching"
             /\ call'.lastInvalid = ValidationFn(call.vd, call'.lastVal)
             /\ call'.streamErr = Nil]_vars
    /\ [][(call.pc = "watching" /\ call'.pc # "watching") =>
             /\ call'.pc = "returned"
             /\ \/ /\ call'.delivered = call.delivered + 1
                   /\ ValidationFn(call.vd, call'.lastVal) = Nil
                \/ /\ call'.delivered = call.delivered
                   /\ call'.streamErr \in StreamErrors(AwaitCtxErr)]_vars

\* Still waiting after a delivered value, other than the fetched one, was
\* rejected.
C26_Witness ==
    /\ call.pc = "watching"
    /\ call.delivered >= 1
    /\ call.lastVal # call.lk.val
    /\ call.lastInvalid # Nil
    /\ call.lastInvalid = ValidationFn(call.vd, call.lastVal)

PostReboot == call.pc \in {"waitForBGPSession", "verifyAFTState", "done"}

\* C27: TestBGP reaches its post-reboot steps only after the reboot-wait
\* loop observed a present boot time greater than the one recorded before
\* the reboot; while the boot time is missing or not greater the loop sleeps
\* and polls again; once more than maxWaitTime has passed at the head of an
\* iteration the test fails fatally; and the loop always ends in one of
\* these two ways.
C27_RebootWaitLoop ==
    /\ [](PostReboot =>
             (call.ok /\ call.bootTime > call.initialBootTime))
    /\ [][(call.pc = "poll"
             /\ (~call'.ok \/ call'.bootTime <= call.initialBootTime))
            => call'.pc = "sleep"]_vars
    /\ [][call.pc = "sleep" => call'.pc = "loop"]_vars
    /\ [][(call.pc = "loop" /\ call.elapsed > maxWaitTime)
            => (call'.pc = "fatal" /\ call'.fatal = "maxWaitTime")]_vars
    /\ [][(call.pc = "loop" /\ call.elapsed <= maxWaitTime)
            => call'.pc = "poll"]_vars
    /\ (call.pc = "loop") ~>
          (\/ call.pc = "waitForBGPSession"
           \/ call.pc = "fatal" /\ call.fatal = "maxWaitTime")

\* The test ran to its end after the loop slept through two stale polls.
C27_Witness ==
    /\ call.pc = "done"
    /\ call.i = 2
    /\ call.bootTime > call.initialBootTime

\* The loop gave up.
C27_WitnessFatal ==
    /\ call.pc = "fatal" /\ call.fatal = "maxWaitTime"
    /\ call.ok /\ call.bootTime = call.initialBootTime

\* What the claim asks of one next hop of a group.
NextHopGood(aft, nhg, nhID, skip) ==
    /\ nhID \in DOMAIN aft.NextHops
    /\ aft.NextHops[nhID].IP # ""
    /\ skip \/ aft.NextHops[nhID].IntfName # ""
    /\ nhID \in DOMAIN nhg.NHWeights
    /\ nhg.NHWeights[nhID] > 0

\* What the claim asks of one generated prefix.
PrefixGood(aft, pfix, wantNHCount, skip) ==
    /\ pfix \in DOMAIN aft.Prefixes
    /\ aft.Prefixes[pfix] \in DOMAIN aft.NextHopGroups
    /\ LET nhg == aft.NextHopGroups[aft.Prefixes[pfix]] IN
       /\ Len(nhg.NHIDs) = wantNHCount
       /\ \A i \in 1..wantNHCount :
             NextHopGood(aft, nhg, nhg.NHIDs[i], skip)
       /\ \A i, j \in 1..wantNHCount :
             nhg.NHWeights[nhg.NHIDs[i]] = nhg.NHWeights[nhg.NHIDs[j]]

\* The index of the first next hop of a group that is not as the claim asks
\* or whose weight is not the weight of the first next hop.
FirstBadNextHop(aft, nhg, wantNHCount, skip) ==
    LET odd(i) ==
            \/ ~NextHopGood(aft, nhg, nhg.NHIDs[i], skip)
            \/ /\ NextHopGood(aft, nhg, nhg.NHIDs[1], skip)
               /\ nhg.NHWeights[nhg.NHIDs[i]] # nhg.NHWeights[nhg.NHIDs[1]]
        bad == {i \in 1..wantNHCount : odd(i)}
    IN  CHOOSE i \in bad : \A j \in bad : i <= j

\* text is the message of the first violation of a prefix that is not good,
\* in the order: prefix, group, number of next hops, then next hop by next
\* hop its existence, interface name, IP, weight and equality of weights.
FirstViolation(aft, pfix, wantNHCount, skip, text) ==
    IF pfix \notin DOMAIN aft.Prefixes
    THEN text = <<"prefix ", ToString(pfix), " not found in AFT">>
    ELSE IF aft.Prefixes[pfix] \notin DOMAIN aft.NextHopGroups
    THEN text[3] = " not found in AFT for prefix "
    ELSE LET nhg == aft.NextHopGroups[aft.Prefixes[pfix]] IN
    IF Len(nhg.NHIDs) # wantNHCount
    THEN text[3] = " has " /\ text[6] = ToString(wantNHCount)
    ELSE LET nhID == nhg.NHIDs[FirstBadNextHop(aft, nhg, wantNHCount, skip)]
         IN
    IF nhID \notin DOMAIN aft.NextHops
    THEN text[1] = "next hop " /\ text[2] = ToString(nhID)
    ELSE IF ~skip /\ aft.NextHops[nhID].IntfName = ""
    THEN /\ text[1] = "next hop interface not found in AFT for next-hop: "
         /\ text[2] = ToString(nhID)
    ELSE IF aft.NextHops[nhID].IP = ""
    THEN /\ text[1] = "next hop IP not found in AFT for next-hop: "
         /\ text[2] = ToString(nhID)
    ELSE IF nhID \notin DOMAIN nhg.NHWeights
    THEN /\ text[1] = "next hop weight not found in AFT for next-hop: "
         /\ text[2] = ToString(nhID)
    ELSE IF nhg.NHWeights[nhID] = 0
    THEN /\ text[1] = "next hop weight are not proper for next-hop: "
         /\ text[2] = ToString(nhID)
    ELSE /\ text[3] = " has unequal weights. Expected "
         /\ text[4] = ToString(nhg.NHWeights[nhg.NHIDs[1]])
         /\ text[6] = ToString(nhg.NHWeights[nhID])
         /\ text[8] = ToString(nhID)

\* C28: verifyPrefixes returns nil iff every generated prefix is in the AFT
\* with a next-hop group of exactly wantNHCount next hops, each of which
\* exists, has an IP (and an interface name unless the deviation skips that
\* check) and a weight above 0 recorded in the group, all these weights being
\* equal; otherwise it returns the error of the first violation, in prefix
\* order.
C28_VerifyPrefixes ==
    call.pc = "verified" =>
        LET aft == call.aft
            want == call.wantNHCount
            skip == call.SkipInterfaceNameCheck
            bad == {p \in 1..call.routeCount : ~PrefixGood(aft, p, want, skip)}
        IN  /\ call.err = Nil <=> bad = {}
            /\ bad # {} =>
                  LET first == CHOOSE p \in bad : \A q \in bad : p <= q IN
                  /\ call.err = PrefixErr(aft, first, want, skip)
                  /\ FirstViolation(aft, first, want, skip, call.err.text)

\* The first prefix is good and the second is in a group whose second next
\* hop has another weight than its first.
C28_Witness ==
    /\ call.pc = "verified"
    /\ call.wantNHCount = bgpNHCount
    /\ PrefixGood(call.aft, 1, call.wantNHCount, call.SkipInterfaceNameCheck)
    /\ call.err # Nil
    /\ call.err.text[1] = "next hop group "
    /\ call.err.text[3] = " has unequal weights. Expected "

====
